---- MODULE Spec2Model ----
(***************************************************************************)
(* Model of the scroll synchronizer hook useSyncScroll                     *)
(* (resources/js/hooks/use-scroll.tsx) together with the part of the host  *)
(* it drives: scrollable elements, ref objects, the scroll-event queue and *)
(* the timer queue of the event loop.                                      *)
(***************************************************************************)
EXTENDS Integers, Sequences, FiniteSets, TLC

\* ------------------------------------------------------------------ bounds
\* Largest scroll range (scrollHeight - clientHeight) of an element.
MaxRange == 2
\* Number of environment events (user scrolls, ref changes, mounts,
\* re-renders, unmounts) explored in one behaviour.
MaxEvents == 3

\* ------------------------------------------------------- the host's objects
Elements == {"e1", "e2", "e3"}
Null == "null"
Refs == {"r1", "r2", "r3"}
Insts == {"view1", "view2"}
NoInst == "none"
\* Sessions: two hook instances may be mounted at the start, and every
\* re-render is an environment event.
MaxSessions == MaxEvents + 2
Sids == 1..MaxSessions
NoClosure == [inst |-> NoInst]

VARIABLES
    current,        \* ref.current of every ref object: an element or Null
    vRange,         \* scrollHeight - clientHeight of every element
    hRange,         \* scrollWidth - clientWidth of every element
    scrollTop,      \* vertical offset of every element
    scrollLeft,     \* horizontal offset of every element
    phase,          \* per hook instance: "new", "mounted" or "unmounted"
    isSyncing,      \* per hook instance: the useRef(false) flag
    effect,         \* per hook instance: the session of its latest effect run (0: none)
    closure,        \* per session: what its effect run captured (refs, options)
    listeners,      \* <<element, session>>: scrollHandler of the session listens on element
    pendingScroll,  \* per element: who raised the queued scroll event ({}: none queued)
    timers,         \* per hook instance: queued setTimeout(..., 0) callbacks, each
                    \* named by the session whose pass scheduled it
    nEvents,        \* environment events so far
    nSessions,      \* sessions created so far
    last,           \* what the last step did (history)
    value,          \* EditorView: the text state
    markedHtml,     \* EditorView: the markup state
    renders,        \* EditorView: the handleChange calls suspended at their await
    issued,         \* EditorView: the texts entered so far, in order (history)
    completed       \* EditorView: which render completed last (0: none; history)

\* The state of the EditorView component.
editorVars == <<value, markedHtml, renders, issued, completed>>

vars == <<current, vRange, hRange, scrollTop, scrollLeft, phase, isSyncing, effect,
          closure, listeners, pendingScroll, timers, nEvents, nSessions, last,
          value, markedHtml, renders, issued, completed>>

User == "user"  \* the cause tag of a scroll event raised by direct user interaction
Axes == {"v", "h"}
Options == [vertical : BOOLEAN, horizontal : BOOLEAN, proportional : BOOLEAN]

\* ------------------------------------------------------------ host: element
\* The host keeps an offset inside the element's scroll range.
Clamp(x, range) == IF x < 0 THEN 0 ELSE IF x > range THEN range ELSE x

\* The host stores offsets on the pixel grid: the fraction n/d (n >= 0, d > 0)
\* rounded to the nearest integer, halves up.
SnapToPixel(n, d) == (2 * n + d) \div (2 * d)

\* What an element's offset becomes when a script assigns n/d to it.
Stored(n, d, range) == Clamp(SnapToPixel(n, d), range)

\* F applied to the value of e (e is evaluated once).
Bind(e, F(_)) == CHOOSE r \in {F(x) : x \in {e}} : TRUE

\* The world a scroll handler runs in: the mutable state it can reach, and
\* the record of the offsets it assigned (writes).
World ==
    [isSyncing |-> isSyncing, scrollTop |-> scrollTop, scrollLeft |-> scrollLeft,
     pendingScroll |-> pendingScroll, timers |-> timers,
     writes |-> {}, outcomes |-> << >>]

\* element.scrollTop = n/d, assigned by a pass of hook instance i: the host
\* clamps and snaps the value and queues a scroll event on the element when
\* its position changed.
AssignScrollTop(w, i, el, n, d) ==
    LET new == Stored(n, d, vRange[el])
        w1 == [w EXCEPT !.writes = @ \cup {[el |-> el, axis |-> "v", n |-> n, d |-> d]}]
    IN IF new = w.scrollTop[el] THEN w1
       ELSE [w1 EXCEPT !.scrollTop[el] = new, !.pendingScroll[el] = @ \cup {i}]

\* element.scrollLeft = n/d, likewise.
AssignScrollLeft(w, i, el, n, d) ==
    LET new == Stored(n, d, hRange[el])
        w1 == [w EXCEPT !.writes = @ \cup {[el |-> el, axis |-> "h", n |-> n, d |-> d]}]
    IN IF new = w.scrollLeft[el] THEN w1
       ELSE [w1 EXCEPT !.scrollLeft[el] = new, !.pendingScroll[el] = @ \cup {i}]

\* ------------------------------------------------------- the hook's helpers
\* getScrollPercentage: the percentage of each axis as a fraction n/d;
\* 0 when the axis has no scroll range.
getScrollPercentage(w, element) ==
    [verticalPercent |->
        IF vRange[element] > 0
        THEN [n |-> w.scrollTop[element], d |-> vRange[element]]
        ELSE [n |-> 0, d |-> 1],
     horizontalPercent |->
        IF hRange[element] > 0
        THEN [n |-> w.scrollLeft[element], d |-> hRange[element]]
        ELSE [n |-> 0, d |-> 1]]

\* A setScrollFromPercentage that applies the vertical percentage to both axes.
setScrollFromPercentageOnePercent(w, c, element, verticalPercent, horizontalPercent) ==
    LET w1 == IF c.vertical /\ vRange[element] > 0
              THEN AssignScrollTop(w, c.inst, element,
                                   verticalPercent.n * vRange[element], verticalPercent.d)
              ELSE w
    IN IF c.horizontal /\ hRange[element] > 0
       THEN AssignScrollLeft(w1, c.inst, element,
                             verticalPercent.n * hRange[element], verticalPercent.d)
       ELSE w1

\* A setScrollFromPercentage that ignores the horizontal option.
setScrollFromPercentageAnyAxis(w, c, element, verticalPercent, horizontalPercent) ==
    LET w1 == IF c.vertical /\ vRange[element] > 0
              THEN AssignScrollTop(w, c.inst, element,
                                   verticalPercent.n * vRange[element], verticalPercent.d)
              ELSE w
    IN IF hRange[element] > 0
       THEN AssignScrollLeft(w1, c.inst, element,
                             horizontalPercent.n * hRange[element], horizontalPercent.d)
       ELSE w1

\* A setScrollFromPercentage without the range checks.
setScrollFromPercentageNoRangeCheck(w, c, element, verticalPercent, horizontalPercent) ==
    LET w1 == IF c.vertical
              THEN AssignScrollTop(w, c.inst, element,
                                   verticalPercent.n * vRange[element], verticalPercent.d)
              ELSE w
    IN IF c.horizontal
       THEN AssignScrollLeft(w1, c.inst, element,
                             horizontalPercent.n * hRange[element], horizontalPercent.d)
       ELSE w1

\* A setScrollFromPercentage that leaves an axis alone when its percentage is 0.
setScrollFromPercentageSkipZero(w, c, element, verticalPercent, horizontalPercent) ==
    LET w1 == IF c.vertical /\ vRange[element] > 0 /\ verticalPercent.n > 0
              THEN AssignScrollTop(w, c.inst, element,
                                   verticalPercent.n * vRange[element], verticalPercent.d)
              ELSE w
    IN IF c.horizontal /\ hRange[element] > 0 /\ horizontalPercent.n > 0
       THEN AssignScrollLeft(w1, c.inst, element,
                             horizontalPercent.n * hRange[element], horizontalPercent.d)
       ELSE w1

\* setScrollFromPercentage of the closure c (it captured vertical and
\* horizontal): assigns percent * range on every enabled axis that has a range.
setScrollFromPercentage(w, c, element, verticalPercent, horizontalPercent) ==
    LET w1 == IF c.vertical /\ vRange[element] > 0
              THEN AssignScrollTop(w, c.inst, element,
                                   verticalPercent.n * vRange[element], verticalPercent.d)
              ELSE w
    IN IF c.horizontal /\ hRange[element] > 0
       THEN AssignScrollLeft(w1, c.inst, element,
                             horizontalPercent.n * hRange[element], horizontalPercent.d)
       ELSE w1

\* A direct branch that, like the proportional one, skips an axis without range.
mirrorScrollRangeChecked(w, c, targetElement, sourceElement) ==
    LET w1 == IF c.vertical /\ vRange[targetElement] > 0
              THEN AssignScrollTop(w, c.inst, targetElement, w.scrollTop[sourceElement], 1)
              ELSE w
    IN IF c.horizontal /\ hRange[targetElement] > 0
       THEN AssignScrollLeft(w1, c.inst, targetElement, w1.scrollLeft[sourceElement], 1)
       ELSE w1

\* The direct branch of the handler: mirrors the source's raw offsets.
mirrorScroll(w, c, targetElement, sourceElement) ==
    LET w1 == IF c.vertical
              THEN AssignScrollTop(w, c.inst, targetElement, w.scrollTop[sourceElement], 1)
              ELSE w
    IN IF c.horizontal
       THEN AssignScrollLeft(w1, c.inst, targetElement, w1.scrollLeft[sourceElement], 1)
       ELSE w1

\* A forEach body that excludes the source by its position in the list (the
\* first ref that resolves to it) and not by the identity of the element.
syncTargetByPosition(w, c, ref, sourceElement, pct) ==
    LET targetElement == current[ref]
        pos == {k \in 1..Len(c.refs) : current[c.refs[k]] = sourceElement}
        first == IF pos = {} THEN 0 ELSE CHOOSE k \in pos : \A j \in pos : k <= j
    IN IF targetElement # Null /\ (first = 0 \/ ref # c.refs[first])
       THEN IF c.proportional
            THEN setScrollFromPercentage(w, c, targetElement,
                                         pct.verticalPercent, pct.horizontalPercent)
            ELSE mirrorScroll(w, c, targetElement, sourceElement)
       ELSE w

\* The body of refs.forEach for one ref of the closure.
syncTarget(w, c, ref, sourceElement, pct) ==
    LET targetElement == current[ref]
    IN IF targetElement # Null /\ targetElement # sourceElement
       THEN IF c.proportional
            THEN setScrollFromPercentage(w, c, targetElement,
                                         pct.verticalPercent, pct.horizontalPercent)
            ELSE mirrorScroll(w, c, targetElement, sourceElement)
       ELSE w

\* A refs.forEach that ends at the first ref that resolves to nothing (what
\* the loop would do if the body failed on a null ref.current).
RECURSIVE forEachRefStopAtNull(_, _, _, _, _)
forEachRefStopAtNull(w, c, k, sourceElement, pct) ==
    IF k > Len(c.refs) \/ current[c.refs[k]] = Null THEN w
    ELSE Bind(syncTarget(w, c, c.refs[k], sourceElement, pct),
              LAMBDA w1 : forEachRefStopAtNull(w1, c, k + 1, sourceElement, pct))

\* refs.forEach(...) of the handler, from position k of the closure's refs.
RECURSIVE forEachRef(_, _, _, _, _)
forEachRef(w, c, k, sourceElement, pct) ==
    IF k > Len(c.refs) THEN w
    ELSE Bind(syncTarget(w, c, c.refs[k], sourceElement, pct),
              LAMBDA w1 : forEachRef(w1, c, k + 1, sourceElement, pct))

\* A scrollHandler that lost its first line (the isSyncing check).
scrollHandlerNoGuard(w, sid, sourceElement) ==
    LET c == closure[sid]
        i == c.inst
        w1 == [w EXCEPT !.isSyncing[i] = TRUE, !.writes = {}]
        pct == getScrollPercentage(w, sourceElement)
    IN Bind(forEachRef(w1, c, 1, sourceElement, pct),
            LAMBDA w2 : [w2 EXCEPT !.timers[i] = Append(@, sid),
                                   !.outcomes = Append(@, [sid |-> sid, inst |-> i,
                                                           ran |-> TRUE,
                                                           writes |-> w2.writes])])

\* A scrollHandler that never schedules the release of the guard.
scrollHandlerNoRelease(w, sid, sourceElement) ==
    LET c == closure[sid]
        i == c.inst
    IN IF w.isSyncing[i]
       THEN [w EXCEPT !.outcomes = Append(@, [sid |-> sid, inst |-> i, ran |-> FALSE,
                                               writes |-> {}])]
       ELSE LET w1 == [w EXCEPT !.isSyncing[i] = TRUE, !.writes = {}]
                pct == getScrollPercentage(w, sourceElement)
            IN Bind(forEachRef(w1, c, 1, sourceElement, pct),
                    LAMBDA w2 : [w2 EXCEPT !.outcomes = Append(@, [sid |-> sid, inst |-> i,
                                                                   ran |-> TRUE,
                                                                   writes |-> w2.writes])])

\* A scrollHandler whose flag is one module-level variable shared by every
\* hook instance.
scrollHandlerGlobalFlag(w, sid, sourceElement) ==
    LET c == closure[sid]
        i == c.inst
    IN IF \E j \in Insts : w.isSyncing[j]
       THEN [w EXCEPT !.outcomes = Append(@, [sid |-> sid, inst |-> i, ran |-> FALSE,
                                               writes |-> {}])]
       ELSE LET w1 == [w EXCEPT !.isSyncing[i] = TRUE, !.writes = {}]
                pct == getScrollPercentage(w, sourceElement)
            IN Bind(forEachRef(w1, c, 1, sourceElement, pct),
                    LAMBDA w2 : [w2 EXCEPT !.timers[i] = Append(@, sid),
                                           !.outcomes = Append(@, [sid |-> sid, inst |-> i,
                                                                   ran |-> TRUE,
                                                                   writes |-> w2.writes])])

\* A scrollHandler that schedules a release also when it discards the event.
scrollHandlerReleaseOnDiscard(w, sid, sourceElement) ==
    LET c == closure[sid]
        i == c.inst
    IN IF w.isSyncing[i]
       THEN [w EXCEPT !.timers[i] = Append(@, sid),
                      !.outcomes = Append(@, [sid |-> sid, inst |-> i, ran |-> FALSE,
                                               writes |-> {}])]
       ELSE LET w1 == [w EXCEPT !.isSyncing[i] = TRUE, !.writes = {}]
                pct == getScrollPercentage(w, sourceElement)
            IN Bind(forEachRef(w1, c, 1, sourceElement, pct),
                    LAMBDA w2 : [w2 EXCEPT !.timers[i] = Append(@, sid),
                                           !.outcomes = Append(@, [sid |-> sid, inst |-> i,
                                                                   ran |-> TRUE,
                                                                   writes |-> w2.writes])])

\* scrollHandler of session sid, called with e.target = sourceElement.
scrollHandler(w, sid, sourceElement) ==
    LET c == closure[sid]
        i == c.inst
    IN IF w.isSyncing[i]
       THEN [w EXCEPT !.outcomes = Append(@, [sid |-> sid, inst |-> i, ran |-> FALSE,
                                               writes |-> {}])]
       ELSE LET w1 == [w EXCEPT !.isSyncing[i] = TRUE, !.writes = {}]
                pct == getScrollPercentage(w, sourceElement)
            IN Bind(forEachRef(w1, c, 1, sourceElement, pct),
                    LAMBDA w2 : [w2 EXCEPT !.timers[i] = Append(@, sid),
                                           !.outcomes = Append(@, [sid |-> sid, inst |-> i,
                                                                   ran |-> TRUE,
                                                                   writes |-> w2.writes])])

\* ------------------------------------------------------------ the effect
\* The elements the refs of a list resolve to at this moment.
LiveElements(refs) == {current[refs[k]] : k \in 1..Len(refs)} \ {Null}

\* An effect body that attaches its listener to every element of the page.
EstablishOnEveryElement(ls, sid, refs) ==
    IF Len(refs) < 2 THEN ls
    ELSE ls \cup {<<el, sid>> : el \in Elements}

\* An effect body without the early return below two refs.
EstablishAnyLength(ls, sid, refs) ==
    ls \cup {<<el, sid>> : el \in LiveElements(refs)}

\* The effect body of useSyncScroll, run as session sid of hook instance i:
\* nothing below two refs, else one listener per ref that resolves to an element.
Establish(ls, sid, refs) ==
    IF Len(refs) < 2 THEN ls
    ELSE ls \cup {<<el, sid>> : el \in LiveElements(refs)}

\* The cleanup the effect run of session sid returned (none below two refs):
\* removes the listener from what each ref resolves to now.
Cleanup(ls, sid) ==
    IF sid = 0 \/ Len(closure[sid].refs) < 2 THEN ls
    ELSE ls \ {<<el, sid>> : el \in LiveElements(closure[sid].refs)}

\* A closure no listener refers to any more can never run again.
Collect(cl, ls, eff) ==
    [s \in Sids |-> IF (\E i \in Insts : eff[i] = s) \/ (\E el \in Elements : <<el, s>> \in ls)
                    THEN cl[s] ELSE NoClosure]

NewClosure(i, refs, o) ==
    [inst |-> i, refs |-> refs, vertical |-> o.vertical, horizontal |-> o.horizontal,
     proportional |-> o.proportional]

Step(kind, el, i, cause, outcomes) ==
    [kind |-> kind, el |-> el, inst |-> i, cause |-> cause, outcomes |-> outcomes]

\* The component of hook instance i mounts and its effect runs for the first time.
Mount(i, refs, o) ==
    /\ phase[i] = "new"
    /\ nEvents < MaxEvents
    /\ LET sid == nSessions + 1 IN
        /\ phase' = [phase EXCEPT ![i] = "mounted"]
        /\ effect' = [effect EXCEPT ![i] = sid]
        /\ closure' = [closure EXCEPT ![sid] = NewClosure(i, refs, o)]
        /\ listeners' = Establish(listeners, sid, refs)
        /\ nSessions' = sid
        /\ last' = Step("mount", Null, i, {}, << >>)
    /\ nEvents' = nEvents + 1
    /\ UNCHANGED editorVars
    /\ UNCHANGED <<current, vRange, hRange, scrollTop, scrollLeft, isSyncing,
                   pendingScroll, timers>>

\* A render of instance i that changed a dependency of the effect (a new refs
\* array, or changed options): the old cleanup runs, then the effect again.
Rerender(i, refs, o) ==
    /\ phase[i] = "mounted"
    /\ nEvents < MaxEvents
    /\ LET sid == nSessions + 1
           ls == Establish(Cleanup(listeners, effect[i]), sid, refs)
       IN
        /\ effect' = [effect EXCEPT ![i] = sid]
        /\ listeners' = ls
        /\ closure' = Collect([closure EXCEPT ![sid] = NewClosure(i, refs, o)], ls,
                              [effect EXCEPT ![i] = sid])
        /\ nSessions' = sid
        /\ last' = Step("rerender", Null, i, {}, << >>)
    /\ nEvents' = nEvents + 1
    /\ UNCHANGED editorVars
    /\ UNCHANGED <<current, vRange, hRange, scrollTop, scrollLeft, phase, isSyncing,
                   pendingScroll, timers>>

\* The component of instance i unmounts: the cleanup runs; a pending timer stays.
Unmount(i) ==
    /\ phase[i] = "mounted"
    /\ nEvents < MaxEvents
    /\ LET ls == Cleanup(listeners, effect[i]) IN
        /\ listeners' = ls
        /\ closure' = Collect(closure, ls, [effect EXCEPT ![i] = 0])
    /\ phase' = [phase EXCEPT ![i] = "unmounted"]
    /\ effect' = [effect EXCEPT ![i] = 0]
    /\ last' = Step("unmount", Null, i, {}, << >>)
    /\ nEvents' = nEvents + 1
    /\ UNCHANGED editorVars
    /\ UNCHANGED <<current, vRange, hRange, scrollTop, scrollLeft, isSyncing,
                   pendingScroll, timers, nSessions>>

\* ------------------------------------------------------------ environment
\* A ref object is pointed at another element, or at nothing.
SetRef(r, x) ==
    /\ nEvents < MaxEvents
    /\ x # current[r]
    /\ current' = [current EXCEPT ![r] = x]
    /\ last' = Step("setref", Null, NoInst, {}, << >>)
    /\ nEvents' = nEvents + 1
    /\ UNCHANGED editorVars
    /\ UNCHANGED <<vRange, hRange, scrollTop, scrollLeft, phase, isSyncing, effect,
                   closure, listeners, pendingScroll, timers, nSessions>>

\* The user scrolls element el vertically to y: the host queues a scroll event.
UserScrollV(el, y) ==
    /\ nEvents < MaxEvents
    /\ y # scrollTop[el]
    /\ scrollTop' = [scrollTop EXCEPT ![el] = y]
    /\ pendingScroll' = [pendingScroll EXCEPT ![el] = @ \cup {User}]
    /\ last' = Step("user", Null, NoInst, {}, << >>)
    /\ nEvents' = nEvents + 1
    /\ UNCHANGED editorVars
    /\ UNCHANGED <<current, vRange, hRange, scrollLeft, phase, isSyncing, effect,
                   closure, listeners, timers, nSessions>>

\* The user scrolls element el horizontally to x.
UserScrollH(el, x) ==
    /\ nEvents < MaxEvents
    /\ x # scrollLeft[el]
    /\ scrollLeft' = [scrollLeft EXCEPT ![el] = x]
    /\ pendingScroll' = [pendingScroll EXCEPT ![el] = @ \cup {User}]
    /\ last' = Step("user", Null, NoInst, {}, << >>)
    /\ nEvents' = nEvents + 1
    /\ UNCHANGED editorVars
    /\ UNCHANGED <<current, vRange, hRange, scrollTop, phase, isSyncing, effect,
                   closure, listeners, timers, nSessions>>

\* ------------------------------------------------------------ event loop
\* The listeners of el are called in the order they were added (sessions are
\* numbered in the order their effects ran).
RECURSIVE dispatch(_, _, _)
dispatch(w, el, sid) ==
    IF sid > MaxSessions THEN w
    ELSE IF <<el, sid>> \notin listeners THEN dispatch(w, el, sid + 1)
    ELSE Bind(scrollHandler(w, sid, el), LAMBDA w1 : dispatch(w1, el, sid + 1))

\* The host takes the scroll event queued on el and dispatches it.
DeliverScroll(el) ==
    /\ pendingScroll[el] # {}
    /\ \E w \in {dispatch([World EXCEPT !.pendingScroll[el] = {}], el, 1)} :
        /\ isSyncing' = w.isSyncing
        /\ scrollTop' = w.scrollTop
        /\ scrollLeft' = w.scrollLeft
        /\ pendingScroll' = w.pendingScroll
        /\ timers' = w.timers
        /\ last' = Step("deliver", el, NoInst, pendingScroll[el], w.outcomes)
    /\ UNCHANGED editorVars
    /\ UNCHANGED <<current, vRange, hRange, phase, effect, closure, listeners,
                   nEvents, nSessions>>

\* A timer callback that leaves the flag as it is.
ReleaseGuardKeepsFlag(i) ==
    /\ timers[i] # << >>
    /\ timers' = [timers EXCEPT ![i] = Tail(@)]
    /\ last' = Step("release", Null, i, {}, << >>)
    /\ UNCHANGED editorVars
    /\ UNCHANGED <<current, vRange, hRange, scrollTop, scrollLeft, phase, isSyncing, effect,
                   closure, listeners, pendingScroll, nEvents, nSessions>>

\* A queued setTimeout callback of instance i runs: isSyncing.current = false.
ReleaseGuard(i) ==
    /\ timers[i] # << >>
    /\ timers' = [timers EXCEPT ![i] = Tail(@)]
    /\ isSyncing' = [isSyncing EXCEPT ![i] = FALSE]
    /\ last' = Step("release", Null, i, {}, << >>)
    /\ UNCHANGED editorVars
    /\ UNCHANGED <<current, vRange, hRange, scrollTop, scrollLeft, phase, effect,
                   closure, listeners, pendingScroll, nEvents, nSessions>>

\* ------------------------------------------------------------ specification
RefLists == {<<"r1">>, <<"r1", "r2">>, <<"r1", "r2", "r3">>}
\* The options the sessions of the lifecycle specification are established
\* with: both axes, proportional or direct.
OptionsLife == {o \in Options : o.vertical /\ o.horizontal}

\* What the page's renders point each ref at: nothing, its own element, and
\* for r1 and r3 one other element (r3 may come to share e1 with r1).
RefTargets(r) ==
    CASE r = "r1" -> {Null, "e1", "e3"}
      [] r = "r2" -> {Null, "e2"}
      [] OTHER -> {Null, "e3", "e1"}

\* The page as laid out: ranges per element.
Layout(vr, hr) ==
    /\ vRange = vr
    /\ hRange = hr
    /\ scrollTop = [el \in Elements |-> 0]
    /\ scrollLeft = [el \in Elements |-> 0]
    /\ current = [r \in Refs |-> CASE r = "r1" -> "e1" [] r = "r2" -> "e2" [] OTHER -> "e3"]

\* Hook instance 1 has rendered and its effect has run as session 1.
Mounted(refs, o) ==
    /\ phase = [i \in Insts |-> IF i = "view1" THEN "mounted" ELSE "new"]
    /\ isSyncing = [i \in Insts |-> FALSE]
    /\ effect = [i \in Insts |-> IF i = "view1" THEN 1 ELSE 0]
    /\ closure = [s \in Sids |-> IF s = 1 THEN NewClosure("view1", refs, o) ELSE NoClosure]
    /\ listeners = Establish({}, 1, refs)
    /\ pendingScroll = [el \in Elements |-> {}]
    /\ timers = [i \in Insts |-> << >>]
    /\ nEvents = 0
    /\ nSessions = 1
    /\ last = Step("init", Null, NoInst, {}, << >>)
    /\ value = ""
    /\ markedHtml = ""
    /\ renders = {}
    /\ issued = << >>
    /\ completed = 0

Init ==
    /\ Layout([el \in Elements |-> CASE el = "e1" -> 1 [] el = "e2" -> 2 [] OTHER -> 0],
              [el \in Elements |-> CASE el = "e1" -> 0 [] el = "e2" -> 1 [] OTHER -> 1])
    /\ \E refs \in RefLists, o \in OptionsLife : Mounted(refs, o)

Next ==
    \/ \E i \in Insts, refs \in RefLists, o \in OptionsLife : Rerender(i, refs, o)
    \/ \E i \in Insts : Unmount(i)
    \/ \E r \in Refs : \E x \in RefTargets(r) : SetRef(r, x)
    \/ \E el \in Elements, y \in 0..MaxRange : y <= vRange[el] /\ UserScrollV(el, y)
    \/ \E el \in Elements, x \in 0..MaxRange : x <= hRange[el] /\ UserScrollH(el, x)
    \/ \E el \in Elements : DeliverScroll(el)
    \/ \E i \in Insts : ReleaseGuard(i)

Spec == Init /\ [][Next]_vars

\* The pass arithmetic over every geometry of a source and a target: e1 and e2
\* take every vertical range and no or some horizontal range, the session is
\* established over all three refs with any options, and the user scrolls e1
\* on both axes and e2 horizontally.
InitGeom ==
    /\ \E v1, v2 \in 0..MaxRange, h1, h2 \in 0..1 :
        Layout([el \in Elements |-> CASE el = "e1" -> v1 [] el = "e2" -> v2 [] OTHER -> 1],
               [el \in Elements |-> CASE el = "e1" -> h1 [] el = "e2" -> h2 [] OTHER -> 0])
    /\ \E o \in Options : Mounted(<<"r1", "r2", "r3">>, o)

NextGeom ==
    \/ \E y \in 0..MaxRange : y <= vRange["e1"] /\ UserScrollV("e1", y)
    \/ \E el \in {"e1", "e2"}, x \in 0..MaxRange : x <= hRange[el] /\ UserScrollH(el, x)
    \/ \E el \in Elements : DeliverScroll(el)
    \/ \E i \in Insts : ReleaseGuard(i)

SpecGeom == InitGeom /\ [][NextGeom]_vars

\* Two views on one page: a second hook instance mounts over the same refs
\* while the first one lives; the refs stay as they are.
NextViews ==
    \/ \E i \in Insts, refs \in RefLists, o \in OptionsLife : Mount(i, refs, o)
    \/ \E i \in Insts, refs \in RefLists, o \in OptionsLife : Rerender(i, refs, o)
    \/ \E i \in Insts : Unmount(i)
    \/ \E el \in Elements, y \in 0..MaxRange : y <= vRange[el] /\ UserScrollV(el, y)
    \/ \E el \in Elements, x \in 0..MaxRange : x <= hRange[el] /\ UserScrollH(el, x)
    \/ \E el \in Elements : DeliverScroll(el)
    \/ \E i \in Insts : ReleaseGuard(i)

SpecViews == Init /\ [][NextViews]_vars

\* The event loop runs every queued task: a queued scroll event is delivered
\* and a queued timer callback runs. The environment need not act.
Fairness ==
    /\ WF_vars(\E el \in Elements : DeliverScroll(el))
    /\ WF_vars(\E i \in Insts : ReleaseGuard(i))

FairSpec == Spec /\ Fairness

\* ------------------------------------------------------------ EditorView
\* The texts the user enters into the textarea.
Texts == {"", "hi", "hi!", "# hi"}

\* marked: the markup of a markdown text.
marked(t) ==
    CASE t = "" -> ""
      [] t = "hi" -> "<p>hi</p>"
      [] t = "hi!" -> "<p>hi!</p>"
      [] OTHER -> "<h1>hi</h1>"

\* A handleChange that awaits the render before it stores the text.
handleChangeTextAfterRender(t) ==
    /\ nEvents < MaxEvents
    /\ t # value
    /\ value' = value
    /\ renders' = renders \cup {[id |-> Len(issued) + 1, html |-> marked(t)]}
    /\ issued' = Append(issued, t)
    /\ nEvents' = nEvents + 1
    /\ UNCHANGED <<markedHtml, completed>>
    /\ UNCHANGED <<current, vRange, hRange, scrollTop, scrollLeft, phase, isSyncing, effect,
                   closure, listeners, pendingScroll, timers, nSessions, last>>

\* handleChange up to its await: the textarea's value changed to t; the text
\* state is set and the render of t is awaited.
handleChange(t) ==
    /\ nEvents < MaxEvents
    /\ t # value
    /\ value' = t
    /\ renders' = renders \cup {[id |-> Len(issued) + 1, html |-> marked(t)]}
    /\ issued' = Append(issued, t)
    /\ nEvents' = nEvents + 1
    /\ UNCHANGED <<markedHtml, completed>>
    /\ UNCHANGED <<current, vRange, hRange, scrollTop, scrollLeft, phase, isSyncing, effect,
                   closure, listeners, pendingScroll, timers, nSessions, last>>

\* A continuation that stores the markup only of the render issued last.
setMarkedHtmlIfLatest(job) ==
    /\ job \in renders
    /\ markedHtml' = IF job.id = Len(issued) THEN job.html ELSE markedHtml
    /\ renders' = renders \ {job}
    /\ completed' = job.id
    /\ UNCHANGED <<value, issued>>
    /\ UNCHANGED <<current, vRange, hRange, scrollTop, scrollLeft, phase, isSyncing, effect,
                   closure, listeners, pendingScroll, timers, nEvents, nSessions, last>>

\* handleChange after its await: an awaited render completed and its output
\* is stored as the markup state.
setMarkedHtml(job) ==
    /\ job \in renders
    /\ markedHtml' = job.html
    /\ renders' = renders \ {job}
    /\ completed' = job.id
    /\ UNCHANGED <<value, issued>>
    /\ UNCHANGED <<current, vRange, hRange, scrollTop, scrollLeft, phase, isSyncing, effect,
                   closure, listeners, pendingScroll, timers, nEvents, nSessions, last>>

\* The EditorView as rendered: useSyncScroll([div1Ref, div2Ref], { proportional:
\* true, vertical: true, horizontal: true }), empty text and markup.
InitEditor ==
    /\ Layout([el \in Elements |-> CASE el = "e1" -> 1 [] el = "e2" -> 2 [] OTHER -> 0],
              [el \in Elements |-> CASE el = "e1" -> 0 [] el = "e2" -> 1 [] OTHER -> 1])
    /\ Mounted(<<"r1", "r2">>, [vertical |-> TRUE, horizontal |-> TRUE, proportional |-> TRUE])

NextEditor ==
    \/ \E t \in Texts : handleChange(t)
    \/ \E job \in renders : setMarkedHtml(job)

SpecEditor == InitEditor /\ [][NextEditor]_vars

\* Every awaited render completes.
FairEditor == SpecEditor /\ WF_vars(\E job \in renders : setMarkedHtml(job))

\* ------------------------------------------------------------ properties
\* The sessions whose scrollHandler listens on element el.
ListenersOn(el) == {sid \in Sids : <<el, sid>> \in listeners}

\* The step delivered the scroll event queued on el.
Delivered(el) == last'.kind = "deliver" /\ last'.el = el

\* A pass is in flight in instance i from the moment the guard is set until
\* the release timer it scheduled has run.
PassesInFlight(i) == Len(timers[i])

\* A handler ran a pass in the last step.
RanPass == last.kind = "deliver" /\ \E k \in 1..Len(last.outcomes) : last.outcomes[k].ran

\* A handler discarded the event in the last step.
Discarded == last.kind = "deliver" /\ \E k \in 1..Len(last.outcomes) : ~last.outcomes[k].ran

\* C1: a scroll event delivered while the guard of every listening session is
\* set changes nothing but the event queue, from which it is gone (no offset
\* is written, no release is scheduled, the guard is untouched, the event is
\* not queued again); a guard release replays nothing; and at most one pass of
\* a hook instance is in flight at a time.
C1_DiscardedWithoutEffect ==
    /\ [][\A el \in Elements :
            (Delivered(el) /\ \A sid \in ListenersOn(el) : isSyncing[closure[sid].inst])
            => /\ scrollTop' = scrollTop /\ scrollLeft' = scrollLeft
               /\ timers' = timers /\ isSyncing' = isSyncing
               /\ pendingScroll' = [pendingScroll EXCEPT ![el] = {}]]_vars
    /\ [][last'.kind = "release"
            => /\ scrollTop' = scrollTop /\ scrollLeft' = scrollLeft
               /\ pendingScroll' = pendingScroll]_vars
    /\ [](\A i \in Insts : PassesInFlight(i) <= 1)

\* C1 witness: an event was delivered to a listener and discarded.
C1_Witness == Discarded /\ ~RanPass /\ last.cause = {User}

\* C2: a scroll event raised only by the offset writes of passes of a hook
\* instance never starts a pass of that instance (it is delivered while the
\* guard is still set and discarded).
C2_OwnEventsDiscarded ==
    (last.kind = "deliver" /\ last.cause # {} /\ User \notin last.cause)
    => \A k \in 1..Len(last.outcomes) :
          last.outcomes[k].inst \in last.cause => ~last.outcomes[k].ran

\* Nothing is in flight: every guard is clear, no scroll event and no release
\* timer is queued.
Quiescent ==
    /\ \A i \in Insts : ~isSyncing[i] /\ timers[i] = << >>
    /\ \A el \in Elements : pendingScroll[el] = {}

\* C3: once the user input has ended, only finitely many passes run: the
\* system reaches quiescence and stays there.
C3_Quiescence == <>[]Quiescent

\* C3 witness: one user scroll was synchronized to another element and the
\* system has come to rest.
C3_Witness ==
    /\ Quiescent /\ last.kind = "release" /\ nEvents = 1
    /\ \E s, t \in Elements : s # t /\ scrollTop[s] > 0 /\ scrollTop[t] > 0

\* ------------------------------------------------- properties of one pass
Range(el, axis) == IF axis = "v" THEN vRange[el] ELSE hRange[el]
Offset(el, axis) == IF axis = "v" THEN scrollTop[el] ELSE scrollLeft[el]
Enabled(c, axis) == IF axis = "v" THEN c.vertical ELSE c.horizontal

\* The passes of the last step: the outcome of a handler that ran.
Passes == IF last.kind = "deliver"
          THEN {last.outcomes[k] : k \in {j \in 1..Len(last.outcomes) : last.outcomes[j].ran}}
          ELSE {}

\* The source of the passes of the last step, and the other live handles of
\* the session of pass p.
Source == last.el
Targets(p) == LiveElements(closure[p.sid].refs) \ {Source}

\* The values pass p assigned to axis a of element t.
Assigned(p, t, a) == {wr \in p.writes : wr.el = t /\ wr.axis = a}

\* C4: a proportional pass assigns to every other live handle T, on each
\* enabled axis on which T has a range, exactly (S.offset / S.range) * T.range
\* (0 * T.range when S has no range), and T's offset is that value as the host
\* stores it.
C4_Proportional ==
    \A p \in Passes : closure[p.sid].proportional =>
        \A t \in Targets(p), a \in Axes :
            (Enabled(closure[p.sid], a) /\ Range(t, a) > 0) =>
                LET sn == IF Range(Source, a) > 0 THEN Offset(Source, a) ELSE 0
                    sd == IF Range(Source, a) > 0 THEN Range(Source, a) ELSE 1
                IN /\ Assigned(p, t, a) # {}
                   /\ \A wr \in Assigned(p, t, a) : wr.n * sd = sn * Range(t, a) * wr.d
                   /\ Offset(t, a) = Stored(sn * Range(t, a), sd, Range(t, a))

\* C4 witness: the source is at the end of its range (percentage 1) and a
\* target with a larger range was set to the end of its own.
C4_Witness ==
    \E p \in Passes : closure[p.sid].proportional /\ closure[p.sid].vertical
        /\ vRange[Source] > 0 /\ scrollTop[Source] = vRange[Source]
        /\ \E t \in Targets(p) : vRange[t] > vRange[Source] /\ scrollTop[t] = vRange[t]

\* C5: a direct pass assigns to every other live handle, on each enabled axis,
\* exactly the raw offset of the source, whatever the range of the target.
C5_Direct ==
    \A p \in Passes : ~closure[p.sid].proportional =>
        \A t \in Targets(p), a \in Axes :
            Enabled(closure[p.sid], a) =>
                /\ Assigned(p, t, a) # {}
                /\ \A wr \in Assigned(p, t, a) : wr.n = Offset(Source, a) /\ wr.d = 1

\* C5 witness: a direct pass assigned an offset beyond the target's range, and
\* to a target that has no range at all.
C5_Witness ==
    \E p \in Passes : ~closure[p.sid].proportional
        /\ \E wr \in p.writes : wr.n > Range(wr.el, wr.axis) /\ Range(wr.el, wr.axis) > 0
        /\ \E wz \in p.writes : wz.n > 0 /\ Range(wz.el, wz.axis) = 0

\* The step delivered a scroll event and every listening session has axis a
\* disabled.
DeliveredDisabled(a) ==
    /\ last'.kind = "deliver"
    /\ \A sid \in ListenersOn(last'.el) : ~Enabled(closure[sid], a)

\* C6: no pass assigns an offset on an axis its session has disabled, and the
\* offsets of that axis are the same after the pass as before, on every element.
C6_AxisGating ==
    /\ [](\A p \in Passes : \A wr \in p.writes : Enabled(closure[p.sid], wr.axis))
    /\ [][DeliveredDisabled("h") => scrollLeft' = scrollLeft]_vars
    /\ [][DeliveredDisabled("v") => scrollTop' = scrollTop]_vars

\* C6 witness: with the horizontal axis disabled, the source was scrolled
\* horizontally, a pass ran, and a target that can scroll horizontally did not move.
C6_Witness ==
    \E p \in Passes : ~closure[p.sid].horizontal
        /\ scrollLeft[Source] > 0
        /\ \E t \in Targets(p) : hRange[t] > 0 /\ scrollLeft[t] = 0

\* C7 as claimed: no pass, in any mode, assigns an offset on an axis on which
\* the element has no range.
C7_NeverWritten ==
    \A p \in Passes : \A wr \in p.writes : Range(wr.el, wr.axis) > 0

\* C7 as amended: a proportional pass assigns no offset on an axis on which the
\* target has no range; a source without range on an axis yields percentage 0
\* (the value assigned on that axis is 0); a direct pass assigns the raw
\* offset to such a target too, and the host keeps its offset at 0.
C7_ZeroRange ==
    /\ \A p \in Passes : closure[p.sid].proportional =>
          /\ \A wr \in p.writes : Range(wr.el, wr.axis) > 0
          /\ \A wz \in p.writes : Range(Source, wz.axis) = 0 => wz.n = 0 /\ wz.d = 1
    /\ \A p \in Passes : ~closure[p.sid].proportional =>
          \A t \in Targets(p), a \in Axes :
              Enabled(closure[p.sid], a) => Assigned(p, t, a) # {}
    /\ \A el \in Elements, a \in Axes : Range(el, a) = 0 => Offset(el, a) = 0

\* C7 witness: a proportional pass skipped a target without vertical range
\* while it wrote another one, from a source without horizontal range.
C7_Witness ==
    \E p \in Passes : closure[p.sid].proportional /\ closure[p.sid].vertical
        /\ closure[p.sid].horizontal /\ hRange[Source] = 0
        /\ \E t \in Targets(p) : vRange[t] = 0 /\ Assigned(p, t, "v") = {}
        /\ \E wr \in p.writes : wr.axis = "h" /\ wr.n = 0
        /\ \E wz \in p.writes : wz.axis = "v" /\ wz.n > 0

\* ------------------------------------------------ properties of sessions
\* The sessions that are established and not released.
ActiveSessions == {effect[i] : i \in Insts} \ {0}

\* The outcomes of the handlers that discarded the event of the last step.
Discards == IF last.kind = "deliver"
            THEN {last.outcomes[k] : k \in {j \in 1..Len(last.outcomes) : ~last.outcomes[j].ran}}
            ELSE {}

\* The sessions whose passes are in flight in hook instance i.
InFlight(i) == {timers[i][k] : k \in 1..Len(timers[i])}

\* C8: once a session is released no scroll event starts a pass of it: every
\* pass belongs to a session that is established at that moment.
C8_NoPassAfterRelease == \A p \in Passes : p.sid \in ActiveSessions

C10_GuardReleased ==
    /\ [](\A p \in Passes : isSyncing[p.inst] /\ p.sid \in InFlight(p.inst))
    /\ [][last'.kind \in {"unmount", "rerender"}
            => timers' = timers /\ isSyncing' = isSyncing]_vars
    /\ [][\A i \in Insts : (isSyncing[i] /\ ~isSyncing'[i])
            => last'.kind = "release" /\ last'.inst = i]_vars
    /\ []<>(\A i \in Insts : ~isSyncing[i])

\* C10 witness: the guard was released after the view had unmounted with the
\* release pending.
C10_Witness ==
    /\ last.kind = "release" /\ phase[last.inst] = "unmounted"
    /\ ~isSyncing[last.inst] /\ nEvents >= 2

\* ------------------------------------------------ properties of establish
\* The elements that carry a listener of session sid.
SessionListeners(sid) == {el \in Elements : <<el, sid>> \in listeners}

\* The sessions that were established (closures still reachable) over fewer
\* than two refs.
ShortSessions == {s \in Sids : closure[s] # NoClosure /\ Len(closure[s].refs) < 2}

\* C11: a session established over fewer than two handles attaches no
\* listener; no delivery of a scroll event calls a handler of such a session;
\* and a scroll event on an element nothing listens on writes no offset,
\* leaves every guard as it is and schedules no release.
C11_ShortSessionInert ==
    /\ [](\A s \in ShortSessions : SessionListeners(s) = {})
    /\ [](last.kind = "deliver" =>
            \A k \in 1..Len(last.outcomes) : last.outcomes[k].sid \notin ShortSessions)
    /\ [][\A el \in Elements : (Delivered(el) /\ ListenersOn(el) = {})
            => /\ scrollTop' = scrollTop /\ scrollLeft' = scrollLeft
               /\ isSyncing' = isSyncing /\ timers' = timers]_vars

\* C11 witness: the view's session is over one handle, the user scrolled that
\* handle's element, the event was delivered, and nothing ran.
C11_Witness ==
    /\ effect["view1"] \in ShortSessions
    /\ listeners = {}
    /\ last.kind = "deliver" /\ last.outcomes = << >> /\ last.cause = {User}
    /\ last.el = current[closure[effect["view1"]].refs[1]]
    /\ scrollTop[last.el] > 0
    /\ \A i \in Insts : ~isSyncing[i] /\ timers[i] = << >>


\* The established sessions over a list of two handles of which exactly one
\* resolved to an element at establish time (the two refs of such a list never
\* resolve to the same element, and an established session carries exactly
\* the listeners its effect attached).
OneLiveSessions ==
    {s \in ActiveSessions : Len(closure[s].refs) = 2 /\ Cardinality(SessionListeners(s)) = 1}

\* C12 as claimed: a session established over a list of two handles of which
\* fewer than two are live attaches no listener and never runs a pass (never
\* sets the guard).
C12_FewLiveInert ==
    \A p \in Passes : p.sid \notin OneLiveSessions


\* ------------------------------------------------ properties of EditorView
\* C13: the markup state is always the initial empty string or the render of
\* one text that was entered; and it is the output of the render that
\* completed last, at every moment and so also once no render is pending.
C13_LastCompletedWins ==
    /\ markedHtml = "" \/ \E k \in 1..Len(issued) : markedHtml = marked(issued[k])
    /\ completed = 0 => markedHtml = ""
    /\ completed # 0 => markedHtml = marked(issued[completed])

\* C13 witness: every issued render has completed, the one that completed
\* last was not the one issued last, and the markup is not the render of the
\* current text.
C13_Witness ==
    /\ renders = {} /\ Len(issued) >= 2
    /\ completed # 0 /\ completed # Len(issued)
    /\ markedHtml # marked(value)


\* C14 as claimed: after the last text change the markup eventually equals the
\* render of the current text, for good.
C14_EventuallyRenderOfText == <>[](markedHtml = marked(value))

\* C14 as amended: the text state equals the entered text immediately after
\* the change, whatever is pending, and the change itself leaves the markup as
\* it is; after the last text change every render completes and the markup
\* settles on the output of the render that completed last, which is the
\* render of the current text when the render of that text completed last.
C14_EventuallyLastCompleted ==
    /\ [](Len(issued) > 0 => value = issued[Len(issued)])
    /\ [][issued' # issued => markedHtml' = markedHtml]_vars
    /\ <>[](/\ renders = {}
            /\ Len(issued) > 0 => (completed # 0 /\ markedHtml = marked(issued[completed]))
            /\ completed = Len(issued) => markedHtml = marked(value))

\* C14 witness: texts were entered while a render was pending, the render of
\* the current text completed last, and the markup is the render of that text.
C14_Witness ==
    /\ renders = {} /\ Len(issued) >= 2 /\ nEvents = MaxEvents
    /\ completed = Len(issued)
    /\ markedHtml = marked(value) /\ markedHtml # ""


\* ------------------------------------------------ properties of the fan-out
\* The positions of the handle list of pass p that resolve to the source.
SourcePositions(p) ==
    {k \in 1..Len(closure[p.sid].refs) : current[closure[p.sid].refs[k]] = Source}

\* Pass p has to assign axis a of target t: the axis is enabled and, in
\* proportional mode, the target has a range on it.
Due(p, t, a) ==
    /\ Enabled(closure[p.sid], a)
    /\ closure[p.sid].proportional => Range(t, a) > 0

\* C15: no pass assigns an offset of its own source element, at however many
\* positions of the handle list the source appears, and every other live
\* handle of the list is assigned.
C15_SourceExcluded ==
    \A p \in Passes :
        /\ \A wr \in p.writes : wr.el # Source
        /\ \A t \in Targets(p), a \in Axes : Due(p, t, a) => Assigned(p, t, a) # {}

\* C15 witness: the source appears at two positions of the handle list, and
\* the pass assigned another handle.
C15_Witness ==
    \E p \in Passes : Cardinality(SourcePositions(p)) >= 2 /\ p.writes # {}


\* The handles of the list of pass p that resolve to nothing.
NonLive(p) ==
    {k \in 1..Len(closure[p.sid].refs) : current[closure[p.sid].refs[k]] = Null}

\* C16: a pass assigns offsets only on the elements the handles of its list
\* resolve to at the time of the pass, assigns every one of them (but the
\* source) whatever the handles resolved to before, and ends as every pass
\* does, with the guard set and its release queued, also when a handle of the
\* list resolves to nothing.
C16_NonLiveSkipped ==
    \A p \in Passes :
        /\ {wr.el : wr \in p.writes} \subseteq Targets(p)
        /\ \A t \in Targets(p), a \in Axes : Due(p, t, a) => Assigned(p, t, a) # {}
        /\ isSyncing[p.inst] /\ p.sid \in InFlight(p.inst)

\* C16 witness: in the session established with every handle live, a handle
\* in the middle of the list resolves to nothing, and a pass assigned the
\* handle behind it.
C16_Witness ==
    \E p \in Passes :
        /\ p.sid = 1 /\ Len(closure[1].refs) = 3
        /\ NonLive(p) = {2}
        /\ \E wr \in p.writes : wr.el = current[closure[1].refs[3]]


\* C17: the effect run of a session over two or more handles attaches the
\* listener to exactly the elements its handles resolve to at that moment; no
\* session gains a listener afterwards; and a handler is called only for an
\* event on an element that carries its listener.
C17_ObserversAtEstablish ==
    /\ [][(last'.kind \in {"mount", "rerender"} /\ Len(closure'[nSessions'].refs) >= 2)
            => {el \in Elements : <<el, nSessions'>> \in listeners'}
               = {current'[closure'[nSessions'].refs[k]] :
                     k \in 1..Len(closure'[nSessions'].refs)} \ {Null}]_vars
    /\ [][\A s \in 1..nSessions :
            {el \in Elements : <<el, s>> \in listeners'} \subseteq SessionListeners(s)]_vars
    /\ [](last.kind = "deliver" =>
            \A k \in 1..Len(last.outcomes) : <<last.el, last.outcomes[k].sid>> \in listeners)

\* C17 witness: a handle of the view's session came to resolve to an element
\* after the session was established, the user scrolled that element, the
\* event was delivered, and no handler of the session was called.
C17_Witness ==
    /\ effect["view1"] # 0 /\ Len(closure[effect["view1"]].refs) >= 2
    /\ last.kind = "deliver" /\ last.cause = {User}
    /\ last.el \in LiveElements(closure[effect["view1"]].refs)
    /\ last.el \notin SessionListeners(effect["view1"])
    /\ \A k \in 1..Len(last.outcomes) : last.outcomes[k].sid # effect["view1"]


\* ------------------------------------------------ properties of re-establish
\* The configuration and handle list a session applies.
Config(s) ==
    [refs |-> closure[s].refs, vertical |-> closure[s].vertical,
     horizontal |-> closure[s].horizontal, proportional |-> closure[s].proportional]

\* C18 as claimed: when a view's session is established again the listeners
\* of its old session are gone: every listener belongs to a session that is
\* established, an element carries listeners of at most one session of a
\* view, and every pass applies the configuration of the view's established
\* session.
C18_OldDetachedBeforeNew ==
    /\ \A el \in Elements : ListenersOn(el) \subseteq ActiveSessions
    /\ \A el \in Elements, i \in Insts :
          Cardinality({s \in ListenersOn(el) : closure[s].inst = i}) <= 1
    /\ \A p \in Passes : effect[p.inst] # 0 => Config(p.sid) = Config(effect[p.inst])


\* C19: for every hook instance at most one release timer is queued, and the
\* guard is set exactly when one is.
C19_GuardIffOneTimer ==
    \A i \in Insts :
        /\ Len(timers[i]) <= 1
        /\ isSyncing[i] <=> Len(timers[i]) = 1

\* C19 witness: the view's session was established again while the guard
\* was set and its release queued, and an event delivered to the new session
\* was discarded without a second timer.
C19_Witness ==
    /\ \E o \in Discards : o.sid > 1 /\ isSyncing[o.inst] /\ timers[o.inst] = <<1>>
    /\ ~RanPass


\* C20: a proportional pass assigns every enabled axis on which the target
\* has a range, whether or not the source moved on that axis; on an axis on
\* which the source has no range it assigns 0, and the target's offset on
\* that axis is 0 after the pass.
C20_WritesUnmovedAxis ==
    \A p \in Passes : closure[p.sid].proportional =>
        \A t \in Targets(p), a \in Axes :
            (Enabled(closure[p.sid], a) /\ Range(t, a) > 0) =>
                /\ Assigned(p, t, a) # {}
                /\ Range(Source, a) = 0 =>
                      /\ \A wr \in Assigned(p, t, a) : wr.n = 0
                      /\ Offset(t, a) = 0

\* C20 witness: the source has no horizontal range and was scrolled
\* vertically; the target has no vertical range and had been scrolled
\* horizontally; the pass moved the target's horizontal offset back to 0.
C20_Witness ==
    \E p \in Passes :
        /\ closure[p.sid].proportional /\ closure[p.sid].vertical /\ closure[p.sid].horizontal
        /\ Source = "e1" /\ hRange["e1"] = 0 /\ scrollTop["e1"] > 0
        /\ vRange["e2"] = 0 /\ hRange["e2"] > 0
        /\ [el |-> "e2", axis |-> "h", n |-> 0, d |-> 1] \in p.writes
        /\ scrollLeft["e2"] = 0
        /\ p.inst \in pendingScroll["e2"]

====
